---- MODULE Spec2Model ----
(***************************************************************************)
(* DeepCatch (src/main.py): the /api/check handler check_phishing, the     *)
(* remote analysis analyze_with_deepseek with its regex-per-field parser   *)
(* of the model's reply, and the helpers extract_urls and                  *)
(* detect_input_type.                                                      *)
(*                                                                         *)
(* A Python str is a sequence of one-character strings, so that every      *)
(* regular expression of the source is modelled by what it matches.        *)
(***************************************************************************)
EXTENDS Integers, Sequences, FiniteSets, TLC

(***************************************************************************)
(* Characters                                                              *)
(***************************************************************************)
UpperCase ==
    <<"A","B","C","D","E","F","G","H","I","J","K","L","M",
      "N","O","P","Q","R","S","T","U","V","W","X","Y","Z">>

LowerCase ==
    <<"a","b","c","d","e","f","g","h","i","j","k","l","m",
      "n","o","p","q","r","s","t","u","v","w","x","y","z">>

Digits == <<"0","1","2","3","4","5","6","7","8","9">>

Range(f) == { f[i] : i \in DOMAIN f }

UpperSet == Range(UpperCase)

LowerSet == Range(LowerCase)

DigitSet == Range(Digits)

\* [a-zA-Z]; under re.IGNORECASE [A-Z] is the same class
IsLetter(c) == c \in UpperSet \cup LowerSet

\* \d
IsDigit(c) == c \in DigitSet

\* \w
WordSet == UpperSet \cup LowerSet \cup DigitSet \cup {"_"}

IsWord(c) == c \in WordSet

\* \s, and the characters str.strip() removes
SpaceSet == {" ", "\n", "\t", "\r"}

IsSpace(c) == c \in SpaceSet

Punctuation ==
    {"!", "\"", "#", "$", "%", "&", "'", "(", ")", "*", "+", ",", "-", ".",
     "/", ":", ";", "<", "=", ">", "?", "@", "[", "\\", "]", "^", "_",
     "{", "|", "}", "~"}

Char == UpperSet \cup LowerSet \cup DigitSet \cup Punctuation
            \cup {" ", "\n", "\t", "\r"}

\* the type str
Str == Seq(Char)

\* c.lower() of one character
LowerChar(c) ==
    IF c \in UpperSet
    THEN LowerCase[CHOOSE i \in DOMAIN UpperCase : UpperCase[i] = c]
    ELSE c

\* str.lower()
Lower(s) == [i \in DOMAIN s |-> LowerChar(s[i])]

\* the value of one decimal digit
DigitVal(c) == (CHOOSE i \in DOMAIN Digits : Digits[i] = c) - 1

\* int(s) of a non-empty run of decimal digits
RECURSIVE IntOf(_)
IntOf(s) ==
    IF s = << >> THEN 0
    ELSE 10 * IntOf(SubSeq(s, 1, Len(s) - 1)) + DigitVal(s[Len(s)])

\* sys.int_info.default_max_str_digits of CPython: int() raises ValueError
\* on a string of more digits (3.11, and the security releases from 3.7 on)
IntMaxStrDigits == 4300

IntRaises(s) == Len(s) > IntMaxStrDigits

Min(S) == CHOOSE x \in S : \A y \in S : x <= y

Max(S) == CHOOSE x \in S : \A y \in S : x >= y

\* s[i-1:] of Python, i counted from 1
From(s, i) == SubSeq(s, i, Len(s))

\* str.strip()
Strip(s) ==
    LET keep == { i \in DOMAIN s : ~IsSpace(s[i]) }
    IN  IF keep = {} THEN << >> ELSE SubSeq(s, Min(keep), Max(keep))

\* the literal lit stands in s at position i (case-sensitive)
LitAt(s, i, lit) ==
    /\ i >= 1
    /\ i + Len(lit) - 1 <= Len(s)
    /\ \A k \in DOMAIN lit : s[i + k - 1] = lit[k]

\* the literal lit stands in s at position i under re.IGNORECASE
LitAtI(s, i, lit) ==
    /\ i >= 1
    /\ i + Len(lit) - 1 <= Len(s)
    /\ \A k \in DOMAIN lit : LowerChar(s[i + k - 1]) = LowerChar(lit[k])

\* keyword in s
Contains(s, lit) == \E i \in 1..Len(s) + 1 : LitAt(s, i, lit)

\* lit occurs in s in some letter case
ContainsI(s, lit) == \E i \in 1..Len(s) + 1 : LitAtI(s, i, lit)

\* the first position from i on whose character is not in the class,
\* Len(s)+1 when the run reaches the end: where a greedy \s*, \w+ or \d+
\* stops
RunEnd(s, i, class) ==
    Min({ j \in i..Len(s) + 1 : j = Len(s) + 1 \/ s[j] \notin class })

\* $ without re.MULTILINE: at the end, or before a final line feed
AtEnd(s, e) == e = Len(s) + 1 \/ (e = Len(s) /\ s[e] = "\n")

(***************************************************************************)
(* extract_urls                                                            *)
(***************************************************************************)
L_HTTP == <<"h","t","t","p">>

L_SSEP == <<"s",":","/","/">>

L_SEP == <<":","/","/">>

\* the class [$-_]: the characters from "$" to "_" in code order, which
\* holds the digits and the upper-case letters too
DollarToUnderscore ==
    {"$", "%", "&", "'", "(", ")", "*", "+", ",", "-", ".", "/",
     ":", ";", "<", "=", ">", "?", "@", "[", "\\", "]", "^", "_"}
        \cup DigitSet \cup UpperSet

\* the characters of the body of url_pattern:
\* [a-zA-Z] | [0-9] | [$-_@.&+] | [!*\\(\\),]; the alternative %XX adds no
\* character, "%" and the hexadecimal digits being in the classes already
UrlBody ==
    UpperSet \cup LowerSet \cup DigitSet
        \cup DollarToUnderscore \cup {"@", ".", "&", "+"}
        \cup {"!", "*", "\\", "(", ")", ","}

\* http[s]?:// at position i (no re.IGNORECASE): the position after it, or 0
SchemeAt(s, i) ==
    IF ~LitAt(s, i, L_HTTP) THEN 0
    ELSE IF LitAt(s, i + 4, L_SSEP) THEN i + 8
    ELSE IF LitAt(s, i + 4, L_SEP) THEN i + 7
    ELSE 0

\* a pattern whose body runs to the next white space
UrlEnd_ToSpace(s, i) ==
    LET b == SchemeAt(s, i)
    IN  IF b > 0 /\ b <= Len(s) /\ s[b] \notin SpaceSet
        THEN RunEnd(s, b, Char \ SpaceSet)
        ELSE 0

\* url_pattern at position i: the position after the match, or 0
UrlEnd(s, i) ==
    LET b == SchemeAt(s, i)
    IN  IF b > 0 /\ b <= Len(s) /\ s[b] \in UrlBody
        THEN RunEnd(s, b, UrlBody)
        ELSE 0

\* re.findall(url_pattern, s) from position i on
RECURSIVE FindUrls(_, _)
FindUrls(s, i) ==
    LET hits == { j \in i..Len(s) : UrlEnd(s, j) > 0 }
    IN  IF hits = {} THEN << >>
        ELSE <<SubSeq(s, Min(hits), UrlEnd(s, Min(hits)) - 1)>>
                \o FindUrls(s, UrlEnd(s, Min(hits)))

extract_urls(text) == FindUrls(text, 1)

(***************************************************************************)
(* detect_input_type                                                       *)
(***************************************************************************)
T_URL == <<"U","R","L","/","L","i","n","k">>

T_EMAIL == <<"E","m","a","i","l">>

T_SMS == <<"S","M","S","/","T","e","x","t"," ","M","e","s","s","a","g","e">>

T_TEXT == <<"T","e","x","t","/","M","e","s","s","a","g","e">>

InputTypes == {T_EMAIL, T_SMS, T_URL, T_TEXT}

EmailKeywords ==
    { <<"s","u","b","j","e","c","t",":">>, <<"f","r","o","m",":">>,
      <<"t","o",":">>, <<"d","e","a","r">>,
      <<"r","e","g","a","r","d","s">>,
      <<"s","i","n","c","e","r","e","l","y">> }

SmsKeywords ==
    { <<"c","l","i","c","k">>, <<"r","e","p","l","y">>,
      <<"t","e","x","t">>, <<"m","s","g">> }

SmsMaxLen == 200

\* a classifier that looks for the e-mail markers before the URL
detect_input_type_EmailFirst(text) ==
    LET text_lower == Lower(text)
    IN  IF \E k \in EmailKeywords : Contains(text_lower, k) THEN T_EMAIL
        ELSE IF \E i \in 1..Len(text) : SchemeAt(text, i) > 0 THEN T_URL
        ELSE IF Len(text) < SmsMaxLen
                /\ \E k \in SmsKeywords : Contains(text_lower, k) THEN T_SMS
        ELSE T_TEXT

detect_input_type(text) ==
    LET text_lower == Lower(text)
    IN  IF \E i \in 1..Len(text) : SchemeAt(text, i) > 0 THEN T_URL
        ELSE IF \E k \in EmailKeywords : Contains(text_lower, k) THEN T_EMAIL
        ELSE IF Len(text) < SmsMaxLen
                /\ \E k \in SmsKeywords : Contains(text_lower, k) THEN T_SMS
        ELSE T_TEXT

(***************************************************************************)
(* The regular expressions of analyze_with_deepseek.  re.search returns    *)
(* the leftmost match; a match object is the record Match(group 1), no     *)
(* match is NoMatch.                                                       *)
(***************************************************************************)
H_VERDICT == <<"V","E","R","D","I","C","T",":">>

H_CONFIDENCE == <<"C","O","N","F","I","D","E","N","C","E",":">>

H_EXPLANATION == <<"E","X","P","L","A","N","A","T","I","O","N",":">>

H_HIGHLIGHTED ==
    <<"H","I","G","H","L","I","G","H","T","E","D","_",
      "C","O","N","T","E","N","T",":">>

H_METADATA == <<"M","E","T","A","D","A","T","A",":">>

H_INPUT_TYPE == <<"I","n","p","u","t"," ","T","y","p","e",":">>

H_SUSPICIOUS ==
    <<"S","u","s","p","i","c","i","o","u","s"," ",
      "E","l","e","m","e","n","t","s",":">>

H_URLS == <<"U","R","L","s"," ","F","o","u","n","d",":">>

H_SENDERS == <<"S","e","n","d","e","r","s","/","D","o","m","a","i","n","s",":">>

L_NONE == <<"n","o","n","e">>

NoMatch == [found |-> FALSE, group |-> << >>]

Match(g) == [found |-> TRUE, group |-> g]

\* header\s*(class+) under re.IGNORECASE: the positions where an attempt
\* succeeds, and where its class run starts
RunStart(s, header, i) == RunEnd(s, i + Len(header), SpaceSet)

RunHits(s, header, class) ==
    { i \in 1..Len(s) :
        /\ LitAtI(s, i, header)
        /\ RunStart(s, header, i) <= Len(s)
        /\ s[RunStart(s, header, i)] \in class }

\* the search taking the last place where the pattern matches
verdict_search_Last(s) ==
    LET hits == RunHits(s, H_VERDICT, WordSet)
    IN  IF hits = {} THEN NoMatch
        ELSE LET b == RunStart(s, H_VERDICT, Max(hits))
                 w == RunEnd(s, b, WordSet)
                 e == IF w + 1 <= Len(s) /\ s[w] = "-" /\ IsWord(s[w + 1])
                      THEN RunEnd(s, w + 1, WordSet)
                      ELSE w
             IN  Match(SubSeq(s, b, e - 1))

\* re.search(r'VERDICT:\s*(\w+(?:-\w+)?)', s, re.IGNORECASE)
verdict_search(s) ==
    LET hits == RunHits(s, H_VERDICT, WordSet)
    IN  IF hits = {} THEN NoMatch
        ELSE LET b == RunStart(s, H_VERDICT, Min(hits))
                 w == RunEnd(s, b, WordSet)
                 e == IF w + 1 <= Len(s) /\ s[w] = "-" /\ IsWord(s[w + 1])
                      THEN RunEnd(s, w + 1, WordSet)
                      ELSE w
             IN  Match(SubSeq(s, b, e - 1))

\* header\s*(\d+): re.search(r'CONFIDENCE:\s*(\d+)%?', s, re.IGNORECASE)
\* and re.search(r'Suspicious Elements:\s*(\d+)', s, re.IGNORECASE)
digits_search(s, header) ==
    LET hits == RunHits(s, header, DigitSet)
    IN  IF hits = {} THEN NoMatch
        ELSE LET b == RunStart(s, header, Min(hits))
             IN  Match(SubSeq(s, b, RunEnd(s, b, DigitSet) - 1))

\* header\s*(.+...) under re.DOTALL: an attempt succeeds where the header
\* is followed by at least one character
DotAllHits(s, header) ==
    { i \in 1..Len(s) : LitAtI(s, i, header) /\ i + Len(header) <= Len(s) }

\* where group 1 of header\s*(.+...) starts under re.DOTALL, the header
\* ending before position p: after the white space, and on the last
\* character when only white space is left (\s* gives one character back)
DotAllStart(s, p) ==
    IF RunEnd(s, p, SpaceSet) <= Len(s) THEN RunEnd(s, p, SpaceSet) ELSE Len(s)

\* header\s*(.+?)(?=...) under re.IGNORECASE | re.DOTALL, look being the
\* positions of s where the lookahead holds: the lazy group has at least
\* one character and ends at the first position after it that is in look
lazy_search(s, header, look) ==
    LET hits == DotAllHits(s, header)
    IN  IF hits = {} THEN NoMatch
        ELSE LET b == DotAllStart(s, Min(hits) + Len(header))
                 e == Min({ x \in b + 1..Len(s) + 1 : x \in look })
             IN  Match(SubSeq(s, b, e - 1))

\* the positions of s where (?=HIGHLIGHTED_CONTENT:|METADATA:|$) holds
LookExplanation(s) ==
    { x \in 1..Len(s) + 1 :
        LitAtI(s, x, H_HIGHLIGHTED) \/ LitAtI(s, x, H_METADATA) \/ AtEnd(s, x) }

\* the positions of s where (?=METADATA:|$) holds
LookHighlighted(s) ==
    { x \in 1..Len(s) + 1 : LitAtI(s, x, H_METADATA) \/ AtEnd(s, x) }

\* the positions of s where (?=\n[A-Z]|$) holds under re.IGNORECASE
LookUrls(s) ==
    { x \in 1..Len(s) + 1 :
        \/ x + 1 <= Len(s) /\ s[x] = "\n" /\ IsLetter(s[x + 1])
        \/ AtEnd(s, x) }

\* the positions of s where (?=\n|$) holds
LookLine(s) ==
    { x \in 1..Len(s) + 1 : (x <= Len(s) /\ s[x] = "\n") \/ AtEnd(s, x) }

\* re.search(r'METADATA:\s*(.+)', s, re.IGNORECASE | re.DOTALL)
metadata_search(s) ==
    LET hits == DotAllHits(s, H_METADATA)
    IN  IF hits = {} THEN NoMatch
        ELSE Match(From(s, DotAllStart(s, Min(hits) + Len(H_METADATA))))

\* re.search(r'Input Type:\s*(.+?)(?=\n|$)', s, re.IGNORECASE): without
\* re.DOTALL the dot refuses the line feed, so group 1 starts at the last
\* position within the white space run (or right after it) that holds
\* another character
InputTypeStart(s, p) ==
    LET cand == { q \in p..RunEnd(s, p, SpaceSet) : q <= Len(s) /\ s[q] # "\n" }
    IN  IF cand = {} THEN 0 ELSE Max(cand)

input_type_search(s) ==
    LET hits == { i \in 1..Len(s) :
                    /\ LitAtI(s, i, H_INPUT_TYPE)
                    /\ InputTypeStart(s, i + Len(H_INPUT_TYPE)) > 0 }
    IN  IF hits = {} THEN NoMatch
        ELSE LET b == InputTypeStart(s, Min(hits) + Len(H_INPUT_TYPE))
                 e == Min({ x \in b + 1..Len(s) + 1 : x \in LookLine(s) })
             IN  Match(SubSeq(s, b, e - 1))

\* s.split(',')
RECURSIVE Split(_)
Split(s) ==
    LET commas == { i \in DOMAIN s : s[i] = "," }
    IN  IF commas = {} THEN <<s>>
        ELSE <<SubSeq(s, 1, Min(commas) - 1)>>
                \o Split(From(s, Min(commas) + 1))

\* [x.strip() for x in s.split(',') if x.strip()]
StripList(s) ==
    LET parts == Split(s)
    IN  SelectSeq([i \in DOMAIN parts |-> Strip(parts[i])],
                  LAMBDA t : t # << >>)

(***************************************************************************)
(* The result of analyze_with_deepseek: the seeded defaults, overwritten   *)
(* field by field from the reply analysis_text.                            *)
(***************************************************************************)
V_SAFE == <<"S","a","f","e">>

V_SUSPICIOUS == <<"S","u","s","p","i","c","i","o","u","s">>

V_HIGH_RISK == <<"H","i","g","h","-","r","i","s","k">>

Verdicts == {V_SAFE, V_SUSPICIOUS, V_HIGH_RISK}

DefaultConfidence == 50

DefaultExplanation ==
    <<"A","n","a","l","y","s","i","s"," ","c","o","m","p","l","e","t","e","d">>

DefaultSuspiciousElements == 0

\* a verdict mapped onto the three-value set when it is one of the three
\* in some letter case
ResultVerdict_Mapped(analysis_text) ==
    LET verdict_match == verdict_search(analysis_text)
        same == { v \in Verdicts : Lower(v) = Lower(verdict_match.group) }
    IN  IF ~verdict_match.found THEN V_SAFE
        ELSE IF same # {} THEN CHOOSE v \in same : TRUE
        ELSE verdict_match.group

\* a verdict that falls back to "Suspicious" when the reply states none
ResultVerdict_FailClosed(analysis_text) ==
    LET verdict_match == verdict_search(analysis_text)
    IN  IF verdict_match.found THEN verdict_match.group ELSE V_SUSPICIOUS

ResultVerdict(analysis_text) ==
    LET verdict_match == verdict_search(analysis_text)
    IN  IF verdict_match.found THEN verdict_match.group ELSE V_SAFE

\* a combined parse: the confidence is read only from a reply with a verdict
ResultConfidence_AfterVerdict(analysis_text) ==
    LET confidence_match == digits_search(analysis_text, H_CONFIDENCE)
    IN  IF verdict_search(analysis_text).found /\ confidence_match.found
        THEN IntOf(confidence_match.group)
        ELSE DefaultConfidence

ResultConfidence(analysis_text) ==
    LET confidence_match == digits_search(analysis_text, H_CONFIDENCE)
    IN  IF confidence_match.found THEN IntOf(confidence_match.group)
        ELSE DefaultConfidence

ResultExplanation(analysis_text) ==
    LET explanation_match ==
            lazy_search(analysis_text, H_EXPLANATION,
                        LookExplanation(analysis_text))
    IN  IF explanation_match.found THEN Strip(explanation_match.group)
        ELSE DefaultExplanation

ResultHighlighted(text, analysis_text) ==
    LET highlighted_match ==
            lazy_search(analysis_text, H_HIGHLIGHTED,
                        LookHighlighted(analysis_text))
    IN  IF highlighted_match.found THEN Strip(highlighted_match.group)
        ELSE text

\* result["metadata"]["input_type"] given the metadata region
MetaInputType(text, metadata_text) ==
    LET input_type_match == input_type_search(metadata_text)
    IN  IF input_type_match.found THEN Strip(input_type_match.group)
        ELSE detect_input_type(text)

MetaSuspiciousElements(metadata_text) ==
    LET susp_elem_match == digits_search(metadata_text, H_SUSPICIOUS)
    IN  IF susp_elem_match.found THEN IntOf(susp_elem_match.group)
        ELSE DefaultSuspiciousElements

\* an override that keeps the seeded list when the value has no token
MetaList_KeepSeeded(seeded, list_match) ==
    IF /\ list_match.found
       /\ Lower(Strip(list_match.group)) # L_NONE
       /\ StripList(Strip(list_match.group)) # << >>
    THEN StripList(Strip(list_match.group))
    ELSE seeded

\* the list after "URLs Found:" or "Senders/Domains:": seeded is kept when
\* the header has no match, and when its value is "none"
MetaList(seeded, list_match) ==
    IF list_match.found /\ Lower(Strip(list_match.group)) # L_NONE
    THEN StripList(Strip(list_match.group))
    ELSE seeded

MetaUrlsFound(text, metadata_text) ==
    MetaList(extract_urls(text),
             lazy_search(metadata_text, H_URLS, LookUrls(metadata_text)))

MetaSendersDomains(metadata_text) ==
    MetaList(<< >>,
             lazy_search(metadata_text, H_SENDERS, LookLine(metadata_text)))

\* a label no pattern of the parser looks for
L_ANALYSIS_TIME ==
    <<"A","n","a","l","y","s","i","s"," ","T","i","m","e",":">>

SeededMetadata(text, analysis_time) ==
    [ input_type          |-> detect_input_type(text),
      suspicious_elements |-> DefaultSuspiciousElements,
      urls_found          |-> extract_urls(text),
      senders_domains     |-> << >>,
      analysis_time       |-> analysis_time ]

\* the metadata rebuilt from the reply alone, without the measured time
ResultMetadata_Rebuilt(text, analysis_text, analysis_time) ==
    LET metadata_match == metadata_search(analysis_text)
        metadata_text == metadata_match.group
    IN  IF ~metadata_match.found THEN SeededMetadata(text, analysis_time)
        ELSE [ input_type          |-> MetaInputType(text, metadata_text),
               suspicious_elements |-> MetaSuspiciousElements(metadata_text),
               urls_found          |-> MetaUrlsFound(text, metadata_text),
               senders_domains     |-> MetaSendersDomains(metadata_text) ]

\* the metadata with an analysis time taken from the reply when the reply
\* states one
ResultMetadata_TimeFromReply(text, analysis_text, analysis_time) ==
    LET metadata_match == metadata_search(analysis_text)
        metadata_text == metadata_match.group
        time_match == digits_search(metadata_text, L_ANALYSIS_TIME)
    IN  IF ~metadata_match.found THEN SeededMetadata(text, analysis_time)
        ELSE [ input_type          |-> MetaInputType(text, metadata_text),
               suspicious_elements |-> MetaSuspiciousElements(metadata_text),
               urls_found          |-> MetaUrlsFound(text, metadata_text),
               senders_domains     |-> MetaSendersDomains(metadata_text),
               analysis_time       |-> IF time_match.found
                                       THEN IntOf(time_match.group)
                                       ELSE analysis_time ]

ResultMetadata(text, analysis_text, analysis_time) ==
    LET metadata_match == metadata_search(analysis_text)
        metadata_text == metadata_match.group
    IN  IF ~metadata_match.found THEN SeededMetadata(text, analysis_time)
        ELSE [ input_type          |-> MetaInputType(text, metadata_text),
               suspicious_elements |-> MetaSuspiciousElements(metadata_text),
               urls_found          |-> MetaUrlsFound(text, metadata_text),
               senders_domains     |-> MetaSendersDomains(metadata_text),
               analysis_time       |-> analysis_time ]

\* the dict analyze_with_deepseek returns
ParseResult(text, analysis_text, analysis_time) ==
    [ verdict             |-> ResultVerdict(analysis_text),
      confidence          |-> ResultConfidence(analysis_text),
      explanation         |-> ResultExplanation(analysis_text),
      highlighted_content |-> ResultHighlighted(text, analysis_text),
      metadata            |->
          ResultMetadata(text, analysis_text, analysis_time) ]

(***************************************************************************)
(* Requests, texts and replies of the model                                *)
(***************************************************************************)
\* the requests the server may be handling
NumRequests == 2

Requests == 1..NumRequests

\* how many segments the remote model strings together into one reply
MaxSegments == 2

\* Python's None, and a value that is not None
None == [some |-> FALSE]

Some(x) == [some |-> TRUE, val |-> x]

SP == <<" ">>

NL == <<"\n">>

TextEmpty == << >>

TextBlank == <<" ", "\n">>

TextPlain == <<" ", "h", "i", " ">>

TextUrl ==
    <<"s","e","e"," ","h","t","t","p",":","/","/","a",".","b"," ","n","o","w">>

Texts == {TextEmpty, TextBlank, TextPlain, TextUrl}

\* the pieces of a reply: lines of the prompt's template and deviations
SegVerdictSafe == H_VERDICT \o SP \o V_SAFE \o NL

SegVerdictCase ==
    H_VERDICT \o SP \o <<"h","i","g","h","-","R","I","S","K">> \o NL

\* the header itself in lower case
SegVerdictLower == Lower(H_VERDICT) \o SP \o V_SUSPICIOUS \o NL

SegVerdictBracket == H_VERDICT \o SP \o <<"[">> \o V_SUSPICIOUS \o <<"]">> \o NL

SegConfidence87 == H_CONFIDENCE \o SP \o <<"8","7","%">>

SegConfidence250 == H_CONFIDENCE \o SP \o <<"2","5","0","%">> \o NL

SegExplanation == H_EXPLANATION \o SP \o <<"o","k">> \o NL

SegExplanationBlank == H_EXPLANATION \o NL

SegHighlighted ==
    H_HIGHLIGHTED \o NL
        \o <<"<","r","e","d",">","h","i","<","/","r","e","d",">">> \o NL

SegMetaInputSms ==
    H_METADATA \o NL \o H_INPUT_TYPE \o SP \o <<"S","M","S">> \o NL

SegMetaInputEmail == H_METADATA \o NL \o H_INPUT_TYPE \o SP \o T_EMAIL \o NL

SegMetaUrlsNone == H_METADATA \o NL \o H_URLS \o SP \o <<"N","o","n","e">> \o NL

SegUrlsNone == H_URLS \o SP \o <<"N","O","N","E">> \o NL

SegUrlsList == H_URLS \o SP \o <<"x",".","y",","," ","z">> \o NL

SegSuspicious == H_SUSPICIOUS \o SP \o <<"3">> \o NL

SegSenders == H_SENDERS \o SP \o <<"a",".","b">> \o NL

Segments ==
    { SegVerdictSafe, SegVerdictCase, SegVerdictLower, SegVerdictBracket,
      SegConfidence87,
      SegConfidence250, SegExplanation, SegExplanationBlank, SegHighlighted,
      SegMetaInputSms, SegMetaInputEmail, SegMetaUrlsNone, SegUrlsNone,
      SegUrlsList, SegSuspicious, SegSenders }

\* the reply of Scenario A: the template followed to the letter
ScenarioA ==
    H_VERDICT \o SP \o V_SAFE \o NL
        \o H_CONFIDENCE \o SP \o <<"9","5","%">> \o NL
        \o H_EXPLANATION \o SP
        \o <<"N","o"," ","r","i","s","k"," ",
             "i","n","d","i","c","a","t","o","r","s",".">> \o NL
        \o H_HIGHLIGHTED \o NL
        \o <<"H","e","l","l","o"," ","t","e","a","m">> \o NL
        \o H_METADATA \o NL
        \o H_INPUT_TYPE \o SP \o T_EMAIL \o NL
        \o H_SUSPICIOUS \o SP \o <<"0">> \o NL
        \o H_URLS \o SP \o <<"N","o","n","e">> \o NL
        \o H_SENDERS \o SP \o <<"N","o","n","e">>

RECURSIVE Composed(_)
Composed(n) ==
    IF n = 0 THEN { << >> }
    ELSE Composed(n - 1)
            \cup { r \o g : r \in Composed(n - 1), g \in Segments }

\* a reply whose confidence has one digit more than int() converts
ReplyLongConfidence ==
    H_CONFIDENCE \o SP \o [i \in 1..IntMaxStrDigits + 1 |-> "9"]

\* a reply with the EXPLANATION header twice
ReplyDupExplanation ==
    H_EXPLANATION \o SP \o <<"a">> \o NL \o H_EXPLANATION \o SP \o <<"b">>

\* a reply that states an analysis time of its own
ReplyAnalysisTime ==
    H_METADATA \o NL \o L_ANALYSIS_TIME \o SP \o <<"9">> \o NL
        \o H_SUSPICIOUS \o SP \o <<"3">>

\* a reply whose "Input Type:" line has nothing after the label
ReplyInputTypeBlank ==
    H_METADATA \o NL \o H_INPUT_TYPE \o NL \o H_SUSPICIOUS \o SP \o <<"3">>

\* a reply whose verdict is set in emphasis marks
ReplyVerdictStars ==
    H_VERDICT \o SP \o <<"*","*">> \o V_HIGH_RISK \o <<"*","*">>

\* the replies message.content may hold
Replies ==
    Composed(MaxSegments)
        \cup { ScenarioA, ReplyLongConfidence, ReplyDupExplanation,
               ReplyAnalysisTime, ReplyInputTypeBlank, ReplyVerdictStars }

\* round(time.time() - start_time, 2), in hundredths of a second
Elapsed == {0, 142}

(***************************************************************************)
(* The server: one handler check_phishing per request                      *)
(***************************************************************************)
VARIABLES
    deepseek_client,   \* the module-level client handle, None without a key
    pc,                \* where each request's handler stands
    input_text,        \* input_data.text of each request
    text,              \* check_phishing's text, the stripped input
    prompt,            \* the prompt analyze_with_deepseek built, or None
    calls,             \* how often chat.completions.create was called
    content,           \* response.choices[0].message.content, once returned
    analysis_time,     \* the elapsed time measured after the call
    result,            \* the dict analyze_with_deepseek returned, or None
    exc,               \* the exception analyze_with_deepseek raised, or None
    responses          \* the HTTP responses sent for each request

vars == <<deepseek_client, pc, input_text, text, prompt, calls, content,
          analysis_time, result, exc, responses>>

\* JSONResponse(status_code=..., content={"detail": ...})
ErrorResponse(status, detail) ==
    [status_code |-> status, content |-> [detail |-> detail]]

\* the dict check_phishing returns, sent with status 200
ResultResponse(res) ==
    [ status_code |-> 200,
      content |-> [ verdict             |-> res.verdict,
                    confidence          |-> res.confidence,
                    explanation         |-> res.explanation,
                    highlighted_content |-> res.highlighted_content,
                    metadata            |-> res.metadata ] ]

InitWith(texts) ==
    /\ deepseek_client \in {None, Some("OpenAI")}
    /\ pc = [r \in Requests |-> IF r = 1 THEN "received" ELSE "absent"]
    /\ input_text \in [Requests -> texts]
    /\ \A r \in Requests : r # 1 => input_text[r] = TextEmpty
    /\ text = [r \in Requests |-> << >>]
    /\ prompt = [r \in Requests |-> None]
    /\ calls = [r \in Requests |-> 0]
    /\ content = [r \in Requests |-> [returned |-> FALSE, value |-> None]]
    /\ analysis_time = [r \in Requests |-> 0]
    /\ result = [r \in Requests |-> None]
    /\ exc = [r \in Requests |-> None]
    /\ responses = [r \in Requests |-> << >>]

Init == InitWith(Texts)

\* the validation applied to the text as sent, not to the stripped text
Validate_Unstripped(r) ==
    /\ pc[r] = "received"
    /\ text' = [text EXCEPT ![r] = Strip(input_text[r])]
    /\ IF input_text[r] = << >>
       THEN /\ responses' = [responses EXCEPT ![r] =
                    Append(@, ErrorResponse(400, "Text cannot be empty"))]
            /\ pc' = [pc EXCEPT ![r] = "done"]
       ELSE /\ pc' = [pc EXCEPT ![r] = "analyze"]
            /\ UNCHANGED responses
    /\ UNCHANGED <<deepseek_client, input_text, prompt, calls, content,
                   analysis_time, result, exc>>

\* check_phishing up to the call of analyze_with_deepseek: strip, validate
Validate(r) ==
    /\ pc[r] = "received"
    /\ text' = [text EXCEPT ![r] = Strip(input_text[r])]
    /\ IF Strip(input_text[r]) = << >>
       THEN /\ responses' = [responses EXCEPT ![r] =
                    Append(@, ErrorResponse(400, "Text cannot be empty"))]
            /\ pc' = [pc EXCEPT ![r] = "done"]
       ELSE /\ pc' = [pc EXCEPT ![r] = "analyze"]
            /\ UNCHANGED responses
    /\ UNCHANGED <<deepseek_client, input_text, prompt, calls, content,
                   analysis_time, result, exc>>

\* analyze_with_deepseek up to the remote call: the client check, raised
\* outside the try block, and the prompt with the text in it
AnalyzeStart(r) ==
    /\ pc[r] = "analyze"
    /\ IF deepseek_client = None
       THEN /\ exc' = [exc EXCEPT ![r] =
                    Some("DeepSeek API client not initialized")]
            /\ pc' = [pc EXCEPT ![r] = "except"]
            /\ UNCHANGED prompt
       ELSE /\ prompt' = [prompt EXCEPT ![r] = Some(text[r])]
            /\ pc' = [pc EXCEPT ![r] = "call"]
            /\ UNCHANGED exc
    /\ UNCHANGED <<deepseek_client, input_text, text, calls, content,
                   analysis_time, result, responses>>

\* chat.completions.create returns: the content is one of the replies, or
\* null
RemoteReplyFrom(r, replies) ==
    /\ pc[r] = "call"
    /\ calls' = [calls EXCEPT ![r] = @ + 1]
    /\ \E c \in { Some(reply) : reply \in replies } \cup { None } :
           content' = [content EXCEPT ![r] = [returned |-> TRUE, value |-> c]]
    /\ \E t \in Elapsed : analysis_time' = [analysis_time EXCEPT ![r] = t]
    /\ pc' = [pc EXCEPT ![r] = "parse"]
    /\ UNCHANGED <<deepseek_client, input_text, text, prompt, result, exc,
                   responses>>

RemoteReply(r) == RemoteReplyFrom(r, Replies)

\* a client that calls again after a failed call, once
RemoteError_Retries(r) ==
    /\ pc[r] = "call"
    /\ calls' = [calls EXCEPT ![r] = @ + 1]
    /\ IF calls[r] + 1 < 2
       THEN UNCHANGED <<pc, exc>>
       ELSE /\ exc' = [exc EXCEPT ![r] = Some("DeepSeek analysis failed")]
            /\ pc' = [pc EXCEPT ![r] = "except"]
    /\ UNCHANGED <<deepseek_client, input_text, text, prompt, content,
                   analysis_time, result, responses>>

\* chat.completions.create raises: the except clause of
\* analyze_with_deepseek wraps the error
RemoteError(r) ==
    /\ pc[r] = "call"
    /\ calls' = [calls EXCEPT ![r] = @ + 1]
    /\ exc' = [exc EXCEPT ![r] = Some("DeepSeek analysis failed")]
    /\ pc' = [pc EXCEPT ![r] = "except"]
    /\ UNCHANGED <<deepseek_client, input_text, text, prompt, content,
                   analysis_time, result, responses>>

\* what raises inside the try block after the call returned:
\* re.search(pattern, None) raises TypeError, and int() raises ValueError
\* on a digit run longer than the interpreter converts
ParseRaises(c) ==
    \/ c = None
    \/ LET confidence_match == digits_search(c.val, H_CONFIDENCE)
       IN  confidence_match.found /\ IntRaises(confidence_match.group)
    \/ LET metadata_match == metadata_search(c.val)
           susp_elem_match == digits_search(metadata_match.group, H_SUSPICIOUS)
       IN  /\ metadata_match.found
           /\ susp_elem_match.found
           /\ IntRaises(susp_elem_match.group)

\* the rest of the try block: the result is seeded and overwritten from
\* the reply, and returned; an exception is wrapped by the except clause
Parse(r) ==
    /\ pc[r] = "parse"
    /\ IF ParseRaises(content[r].value)
       THEN /\ exc' = [exc EXCEPT ![r] = Some("DeepSeek analysis failed")]
            /\ pc' = [pc EXCEPT ![r] = "except"]
            /\ UNCHANGED result
       ELSE /\ result' = [result EXCEPT ![r] =
                    Some(ParseResult(text[r], content[r].value.val,
                                     analysis_time[r]))]
            /\ pc' = [pc EXCEPT ![r] = "return"]
            /\ UNCHANGED exc
    /\ UNCHANGED <<deepseek_client, input_text, text, prompt, calls, content,
                   analysis_time, responses>>

\* a result kept in one module-level object that every request writes and
\* reads: the response carries the result of whichever request wrote last
Return_Shared(r) ==
    /\ pc[r] = "return"
    /\ \E q \in Requests :
          /\ result[q] # None
          /\ responses' = [responses EXCEPT ![r] =
                  Append(@, ResultResponse(result[q].val))]
    /\ pc' = [pc EXCEPT ![r] = "done"]
    /\ UNCHANGED <<deepseek_client, input_text, text, prompt, calls, content,
                   analysis_time, result, exc>>

\* check_phishing after analyze_with_deepseek returned: the five fields
Return(r) ==
    /\ pc[r] = "return"
    /\ responses' = [responses EXCEPT ![r] =
            Append(@, ResultResponse(result[r].val))]
    /\ pc' = [pc EXCEPT ![r] = "done"]
    /\ UNCHANGED <<deepseek_client, input_text, text, prompt, calls, content,
                   analysis_time, result, exc>>

\* no except clause: the exception leaves the handler, nothing is sent
Except_Escapes(r) ==
    /\ pc[r] = "except"
    /\ pc' = [pc EXCEPT ![r] = "done"]
    /\ UNCHANGED <<deepseek_client, input_text, text, prompt, calls, content,
                   analysis_time, result, exc, responses>>

\* check_phishing's except clause: status 500 with the message
Except(r) ==
    /\ pc[r] = "except"
    /\ responses' = [responses EXCEPT ![r] =
            Append(@, ErrorResponse(500, <<"Prediction failed", exc[r].val>>))]
    /\ pc' = [pc EXCEPT ![r] = "done"]
    /\ UNCHANGED <<deepseek_client, input_text, text, prompt, calls, content,
                   analysis_time, result, exc>>

Next ==
    \E r \in Requests :
        \/ Validate(r)
        \/ AnalyzeStart(r)
        \/ RemoteReply(r)
        \/ RemoteError(r)
        \/ Parse(r)
        \/ Return(r)
        \/ Except(r)

Spec == Init /\ [][Next]_vars

(***************************************************************************)
(* Concurrent requests: every request is in flight from the start, and the *)
(* steps of the handlers interleave freely.                                *)
(***************************************************************************)
ConcTexts == { TextBlank, TextPlain, TextUrl }

ConcReplies == { SegConfidence87, SegMetaUrlsNone }

InitConc ==
    /\ deepseek_client \in {None, Some("OpenAI")}
    /\ pc = [r \in Requests |-> "received"]
    /\ input_text \in [Requests -> ConcTexts]
    /\ text = [r \in Requests |-> << >>]
    /\ prompt = [r \in Requests |-> None]
    /\ calls = [r \in Requests |-> 0]
    /\ content = [r \in Requests |-> [returned |-> FALSE, value |-> None]]
    /\ analysis_time = [r \in Requests |-> 0]
    /\ result = [r \in Requests |-> None]
    /\ exc = [r \in Requests |-> None]
    /\ responses = [r \in Requests |-> << >>]

NextConc ==
    \E r \in Requests :
        \/ Validate(r)
        \/ AnalyzeStart(r)
        \/ RemoteReplyFrom(r, ConcReplies)
        \/ RemoteError(r)
        \/ Parse(r)
        \/ Return(r)
        \/ Except(r)

SpecConc == InitConc /\ [][NextConc]_vars

(***************************************************************************)
(* Replies laid out exactly as the template of the prompt.                 *)
(***************************************************************************)
\* str(n) of a natural number
RECURSIVE DigitsOf(_)
DigitsOf(n) ==
    IF n < 10 THEN << Digits[n + 1] >>
    ELSE DigitsOf(n \div 10) \o << Digits[(n % 10) + 1] >>

\* [list or "None"]: the items separated by a comma and a space
RECURSIVE ListOrNone(_)
ListOrNone(items) ==
    IF items = << >> THEN <<"N","o","n","e">>
    ELSE IF Len(items) = 1 THEN items[1]
    ELSE items[1] \o <<",", " ">> \o ListOrNone(Tail(items))

\* the template with its bracketed places filled in from p
Template(p) ==
    H_VERDICT \o SP \o p.verdict \o NL
        \o H_CONFIDENCE \o SP \o DigitsOf(p.confidence) \o <<"%">> \o NL
        \o H_EXPLANATION \o SP \o p.explanation \o NL
        \o H_HIGHLIGHTED \o NL
        \o p.highlighted_content \o NL
        \o H_METADATA \o NL
        \o H_INPUT_TYPE \o SP \o p.input_type \o NL
        \o H_SUSPICIOUS \o SP \o DigitsOf(p.suspicious_elements) \o NL
        \o H_URLS \o SP \o ListOrNone(p.urls_found) \o NL
        \o H_SENDERS \o SP \o ListOrNone(p.senders_domains)

UrlAB == <<"h","t","t","p",":","/","/","a",".","b">>

NoRiskIndicators ==
    <<"N","o"," ","r","i","s","k"," ",
      "i","n","d","i","c","a","t","o","r","s",".">>

HelloTeam == <<"H","e","l","l","o"," ","t","e","a","m">>

WireExplanations == { NoRiskIndicators, <<"o","k","\n","b","u","t">> }

WireHighlighted ==
    { HelloTeam, <<"<","r","e","d",">","h","i","<","/","r","e","d",">">> }

WireLists == { << >>, << UrlAB >>, << UrlAB, <<"x",".","y">> >> }

\* the values a template-form reply is written from
WireParams ==
    [ verdict               : Verdicts,
      confidence            : {0, 95},
      explanation           : WireExplanations,
      highlighted_content   : WireHighlighted,
      input_type            : {T_EMAIL, T_SMS},
      suspicious_elements   : {0, 12},
      urls_found            : WireLists,
      senders_domains       : WireLists ]

WireReply == [p \in WireParams |-> Template(p)]

WireReplies == Range(WireReply)

NextWire ==
    \E r \in Requests :
        \/ Validate(r)
        \/ AnalyzeStart(r)
        \/ RemoteReplyFrom(r, WireReplies)
        \/ RemoteError(r)
        \/ Parse(r)
        \/ Return(r)
        \/ Except(r)

SpecWire == Init /\ [][NextWire]_vars

(***************************************************************************)
(* Replies whose METADATA region holds the four sub-field lines in any     *)
(* order.                                                                  *)
(***************************************************************************)
MetaHeaders == << H_INPUT_TYPE, H_SUSPICIOUS, H_URLS, H_SENDERS >>

\* the values of the four lines, in the order of MetaHeaders
MetaFull ==
    << T_EMAIL, <<"3">>, <<"x",".","y",",", " ","z">>, <<"c",".","d">> >>

\* MetaFull, and MetaFull with one value left empty
MetaValues ==
    { MetaFull }
        \cup { [MetaFull EXCEPT ![k] = << >>] : k \in DOMAIN MetaHeaders }

\* the orders the four lines can stand in
MetaOrders ==
    { f \in [DOMAIN MetaHeaders -> DOMAIN MetaHeaders] :
          \A i, j \in DOMAIN MetaHeaders : f[i] = f[j] => i = j }

CanonicalOrder == [i \in DOMAIN MetaHeaders |-> i]

MetaLine(v, k) == MetaHeaders[k] \o SP \o v[k]

\* "METADATA:" and the four lines in the order f, one line feed between
MetaReply(v, f) ==
    H_METADATA \o NL
        \o MetaLine(v, f[1]) \o NL \o MetaLine(v, f[2]) \o NL
        \o MetaLine(v, f[3]) \o NL \o MetaLine(v, f[4])

OrderReply == [v \in MetaValues, f \in MetaOrders |-> MetaReply(v, f)]

OrderReplies == Range(OrderReply)

NextOrder ==
    \E r \in Requests :
        \/ Validate(r)
        \/ AnalyzeStart(r)
        \/ RemoteReplyFrom(r, OrderReplies)
        \/ RemoteError(r)
        \/ Parse(r)
        \/ Return(r)
        \/ Except(r)

SpecOrder == Init /\ [][NextOrder]_vars

(***************************************************************************)
(* Requests over a wider range of texts, for the classifier and the URL    *)
(* extractor, which see the text only.                                     *)
(***************************************************************************)
\* an URL marker and an e-mail marker
TextUrlDear ==
    <<"d","e","a","r"," ","h","t","t","p",":","/","/","a",".","b">>

TextDear ==
    <<"D","e","a","r"," ","x">>

\* an e-mail marker and an SMS marker
TextReplyTo ==
    <<"r","e","p","l","y"," ","t","o",":"," ","m","e">>

TextClick ==
    <<"C","l","i","c","k"," ","m","e">>

\* the scheme in upper case, and with a capital only
TextUpperUrl ==
    <<"H","T","T","P",":","/","/","E","X","A","M","P","L","E",".","C","O",
      "M">>

TextCapitalUrl ==
    <<"H","t","t","p","s",":","/","/","x">>

TextVisit ==
    <<"V","i","s","i","t"," ","h","t","t","p",":","/","/","e","x","a","m",
      "p","l","e",".","c","o","m","/","a","?","b","=","1"," ","n","o","w">>

\* the same URL twice
TextTwice ==
    <<"h","t","t","p",":","/","/","a",".","b"," ","h","t","t","p",":","/",
      "/","a",".","b">>

\* a scheme with no body after it
TextBare ==
    <<"h","t","t","p",":","/","/"," ","x">>

\* a body ended by a character outside the body set
TextQuoted ==
    <<"h","t","t","p","s",":","/","/","q",".","r","/","%","4","1",",","b",
      "\"","c">>

\* a second scheme inside the body of the first match
TextAdjacent ==
    <<"h","t","t","p",":","/","/","a",".","b","h","t","t","p","s",":","/",
      "/","c",".","d">>

TextTilde ==
    <<"x"," ","h","t","t","p",":","/","/","~"," ","h","t","t","p",":","/",
      "/","a","~","b">>

\* "click" padded to one character less than SmsMaxLen, and to SmsMaxLen
TextClickShort == <<"c","l","i","c","k">> \o [i \in 1..SmsMaxLen - 6 |-> "x"]

TextClickLong == <<"c","l","i","c","k">> \o [i \in 1..SmsMaxLen - 5 |-> "x"]

RichTexts ==
    Texts \cup { TextUrlDear, TextDear, TextReplyTo, TextClick, TextUpperUrl,
                 TextCapitalUrl, TextVisit, TextTwice, TextBare, TextQuoted,
                 TextAdjacent, TextTilde, TextClickShort, TextClickLong }

\* replies that leave the seeded input_type and urls_found in place
TextReplies == { << >>, SegVerdictSafe }

InitText == InitWith(RichTexts)

NextText ==
    \E r \in Requests :
        \/ Validate(r)
        \/ AnalyzeStart(r)
        \/ RemoteReplyFrom(r, TextReplies)
        \/ RemoteError(r)
        \/ Parse(r)
        \/ Return(r)
        \/ Except(r)

SpecText == InitText /\ [][NextText]_vars

(***************************************************************************)
(* Replies whose METADATA region holds the two list lines, over a range of *)
(* list values.                                                            *)
(***************************************************************************)
\* a list value as the reply writes it, with the tokens it is made of;
\* none marks the value that stands for no list
ListCases ==
    { [ value  |-> <<"x",".","y",","," ","z">>,
        tokens |-> << <<"x",".","y">>, <<"z">> >>,
        none   |-> FALSE ],
      [ value  |-> <<",">>,
        tokens |-> << >>,
        none   |-> FALSE ],
      [ value  |-> <<"a"," ",",",","," ","b"," ">>,
        tokens |-> << <<"a">>, <<"b">> >>,
        none   |-> FALSE ],
      [ value  |-> <<"b",",","a",",","b">>,
        tokens |-> << <<"b">>, <<"a">>, <<"b">> >>,
        none   |-> FALSE ],
      [ value  |-> <<"h","t","t","p",":","/","/","c",".","d">>,
        tokens |-> << <<"h","t","t","p",":","/","/","c",".","d">> >>,
        none   |-> FALSE ],
      [ value  |-> <<"N","o","n","e">>,
        tokens |-> << >>,
        none   |-> TRUE ] }

\* "METADATA:", the "URLs Found:" line and the "Senders/Domains:" line
ListReply ==
    [ u \in ListCases, d \in ListCases |->
        H_METADATA \o NL \o H_URLS \o SP \o u.value \o NL
            \o H_SENDERS \o SP \o d.value ]

ListReplies == Range(ListReply)

NextList ==
    \E r \in Requests :
        \/ Validate(r)
        \/ AnalyzeStart(r)
        \/ RemoteReplyFrom(r, ListReplies)
        \/ RemoteError(r)
        \/ Parse(r)
        \/ Return(r)
        \/ Except(r)

SpecList == Init /\ [][NextList]_vars

(***************************************************************************)
(* Properties                                                              *)
(***************************************************************************)
ResultFields ==
    {"verdict", "confidence", "explanation", "highlighted_content", "metadata"}

MetadataFields ==
    {"input_type", "suspicious_elements", "urls_found", "senders_domains",
     "analysis_time"}

\* request r got a reply string from the remote model
HasReply(r) == content[r].returned /\ content[r].value.some

Reply(r) == content[r].value.val

\* seg stands in s where header occurs first, in any letter case
SegFirst(s, seg, header) ==
    \E i \in 1..Len(s) :
        /\ LitAt(s, i, seg)
        /\ \A j \in 1..i - 1 : ~LitAtI(s, j, header)

\* seg stands in s where header occurs first, and ends at a position of look
SegFirstUpTo(s, seg, header, look) ==
    \E i \in 1..Len(s) :
        /\ LitAt(s, i, seg)
        /\ \A j \in 1..i - 1 : ~LitAtI(s, j, header)
        /\ i + Len(seg) \in look

\* C1: whenever the METADATA region of the reply has a "URLs Found:" value
\* that, trimmed and lower-cased, is "none", the result's urls_found is the
\* empty list, also when the request text holds URLs.
C1_NoneCollapses ==
    \A r \in Requests :
        result[r].some =>
            LET region == metadata_search(Reply(r))
                value == lazy_search(region.group, H_URLS,
                                     LookUrls(region.group))
            IN  ( /\ region.found
                  /\ value.found
                  /\ Lower(Strip(value.group)) = L_NONE )
                    => result[r].val.metadata.urls_found = << >>

\* C2: the confidence of every result, and of every response that carries
\* one, lies in 0..100.
C2_ConfidenceInRange ==
    \A r \in Requests :
        /\ result[r].some => result[r].val.confidence \in 0..100
        /\ \A i \in DOMAIN responses[r] :
               responses[r][i].status_code = 200
                   => responses[r][i].content.confidence \in 0..100

\* C3: the explanation of every result is a non-empty string; a reply whose
\* EXPLANATION: header is followed by white space only keeps the default.
C3_ExplanationNonEmpty ==
    \A r \in Requests :
        result[r].some => result[r].val.explanation # << >>

\* C4: the verdict of every response that carries a result is one of Safe,
\* Suspicious, High-risk.
C4_VerdictInEnum ==
    \A r \in Requests :
        \A i \in DOMAIN responses[r] :
            responses[r][i].status_code = 200
                => responses[r][i].content.verdict \in Verdicts

\* C5: metadata.input_type of every result is one of the four labels of
\* detect_input_type.
C5_InputTypeInEnum ==
    \A r \in Requests :
        result[r].some => result[r].val.metadata.input_type \in InputTypes

\* the record a reply with no header at all leaves: every seeded default
SeededResult(r) ==
    [ verdict             |-> V_SAFE,
      confidence          |-> DefaultConfidence,
      explanation         |-> DefaultExplanation,
      highlighted_content |-> text[r],
      metadata            |-> SeededMetadata(text[r], analysis_time[r]) ]

\* C6: field independence.  A field whose header does not occur in the
\* reply (in any letter case) has its seeded default, whatever else the
\* reply holds; a field whose header occurs first in a well-formed line of
\* the reply has that line's value; and the reply "CONFIDENCE: 87%" gives
\* confidence 87 with every other field at its default.
C6_FieldIndependence ==
    \A r \in Requests :
        result[r].some =>
            LET res == result[r].val
                reply == Reply(r)
            IN  /\ ~ContainsI(reply, H_VERDICT) => res.verdict = V_SAFE
                /\ ~ContainsI(reply, H_CONFIDENCE)
                       => res.confidence = DefaultConfidence
                /\ ~ContainsI(reply, H_EXPLANATION)
                       => res.explanation = DefaultExplanation
                /\ ~ContainsI(reply, H_HIGHLIGHTED)
                       => res.highlighted_content = text[r]
                /\ ~ContainsI(reply, H_METADATA)
                       => res.metadata
                              = SeededMetadata(text[r], analysis_time[r])
                /\ SegFirst(reply, SegVerdictSafe, H_VERDICT)
                       => res.verdict = V_SAFE
                /\ SegFirst(reply, SegVerdictCase, H_VERDICT)
                       => res.verdict = <<"h","i","g","h","-","R","I","S","K">>
                /\ SegFirst(reply, SegVerdictLower, H_VERDICT)
                       => res.verdict = V_SUSPICIOUS
                /\ SegFirst(reply, SegConfidence87, H_CONFIDENCE)
                       => res.confidence = 87
                /\ SegFirst(reply, SegConfidence250, H_CONFIDENCE)
                       => res.confidence = 250
                /\ SegFirstUpTo(reply, SegExplanation, H_EXPLANATION,
                                LookExplanation(reply))
                       => res.explanation = <<"o","k">>
                /\ SegFirstUpTo(reply, SegHighlighted, H_HIGHLIGHTED,
                                LookHighlighted(reply))
                       => res.highlighted_content
                              = <<"<","r","e","d",">","h","i",
                                  "<","/","r","e","d",">">>
                /\ SegFirst(reply, SegMetaInputSms, H_METADATA)
                       => res.metadata.input_type = <<"S","M","S">>
                /\ reply = SegConfidence87
                       => res = [SeededResult(r) EXCEPT !.confidence = 87]

\* C6 witness: the reply "CONFIDENCE: 87%" was parsed for a text with a URL
\* in it: confidence 87, the text's own URL list and type in the metadata
C6_Witness ==
    \E r \in Requests :
        /\ result[r].some
        /\ Reply(r) = SegConfidence87
        /\ result[r].val.confidence = 87
        /\ result[r].val.verdict = V_SAFE
        /\ result[r].val.metadata.urls_found # << >>

\* C7: default-completeness.  Every returned record has the five fields
\* and the five metadata fields; verdict, explanation, highlighted_content
\* and input_type are strings, confidence and suspicious_elements are
\* natural numbers, urls_found and senders_domains are lists of strings.
C7_DefaultComplete ==
    \A r \in Requests :
        result[r].some =>
            LET res == result[r].val
            IN  /\ DOMAIN res = ResultFields
                /\ DOMAIN res.metadata = MetadataFields
                /\ res.verdict \in Str
                /\ res.confidence \in Nat
                /\ res.explanation \in Str
                /\ res.highlighted_content \in Str
                /\ res.metadata.input_type \in Str
                /\ res.metadata.suspicious_elements \in Nat
                /\ res.metadata.urls_found \in Seq(Str)
                /\ res.metadata.senders_domains \in Seq(Str)
                /\ res.metadata.analysis_time \in Nat

\* C7 witness: a record was returned for the empty reply
C7_Witness ==
    \E r \in Requests :
        /\ result[r].some
        /\ Reply(r) = << >>
        /\ result[r].val = SeededResult(r)

\* C8: once the remote call has returned a reply string, the request never
\* takes the failure path: no exception is raised and no error response
\* is sent.
C8_ReplyNeverFails ==
    \A r \in Requests :
        HasReply(r) =>
            /\ pc[r] # "except"
            /\ ~exc[r].some
            /\ \A i \in DOMAIN responses[r] :
                   responses[r][i] = ResultResponse(result[r].val)

\* C9: a finished request has sent exactly one response and an unfinished
\* one none; a response is either the complete record with status 200 or a
\* failure that carries a detail message and nothing else; an exception
\* raised while handling ends in the status 500 response.
C9_OneCompleteResponseOrFailure ==
    \A r \in Requests :
        /\ Len(responses[r]) = IF pc[r] = "done" THEN 1 ELSE 0
        /\ \A i \in DOMAIN responses[r] :
               LET resp == responses[r][i]
               IN  \/ /\ resp.status_code = 200
                      /\ result[r].some
                      /\ DOMAIN resp.content = ResultFields
                      /\ DOMAIN resp.content.metadata = MetadataFields
                   \/ /\ resp.status_code \in {400, 500}
                      /\ DOMAIN resp.content = {"detail"}
        /\ (pc[r] = "done" /\ exc[r].some)
               => responses[r] = << ErrorResponse(500,
                                        <<"Prediction failed", exc[r].val>>) >>

\* C9 witness: without a client the request ended in the one failure
\* response
C9_Witness ==
    \E r \in Requests :
        /\ pc[r] = "done"
        /\ deepseek_client = None
        /\ Len(responses[r]) = 1
        /\ responses[r][1].status_code = 500

\* C10: a request whose text is empty after stripping is rejected before
\* any processing: no prompt is ever built, the remote model is never
\* called, nothing is parsed, and its one response is the status 400
\* "Text cannot be empty".
C10_EmptyRejectedFirst ==
    \A r \in Requests :
        Strip(input_text[r]) = << >> =>
            /\ pc[r] \in {"absent", "received", "done"}
            /\ prompt[r] = None
            /\ calls[r] = 0
            /\ ~content[r].returned
            /\ result[r] = None
            /\ pc[r] = "done"
                   => responses[r]
                          = << ErrorResponse(400, "Text cannot be empty") >>

\* C10 witness: a text of white space only was rejected
C10_Witness ==
    \E r \in Requests :
        /\ input_text[r] = TextBlank
        /\ pc[r] = "done"
        /\ responses[r] = << ErrorResponse(400, "Text cannot be empty") >>

\* C11: the remote model is called at most once for a request, and not at
\* all when the client is not configured; once the call has failed the
\* request ends in failure and no further call is made for it.
C11_NoRetry ==
    /\ [](\A r \in Requests :
            /\ calls[r] <= 1
            /\ deepseek_client = None => calls[r] = 0
            /\ (calls[r] = 1 /\ ~content[r].returned) =>
                   /\ pc[r] \in {"except", "done"}
                   /\ result[r] = None
                   /\ pc[r] = "done" =>
                          /\ Len(responses[r]) = 1
                          /\ responses[r][1].status_code = 500)
    /\ [][\A r \in Requests :
            (calls[r] = 1 /\ ~content[r].returned) => calls'[r] = calls[r]]_vars

\* a request whose one call failed, answered with status 500
C11_Witness ==
    \E r \in Requests :
        /\ pc[r] = "done"
        /\ calls[r] = 1
        /\ ~content[r].returned
        /\ exc[r] = Some("DeepSeek analysis failed")
        /\ responses[r] = <<ErrorResponse(500,
                <<"Prediction failed", "DeepSeek analysis failed">>)>>

\* the state a request owns
Own(r) ==
    <<pc[r], input_text[r], text[r], prompt[r], calls[r], content[r],
      analysis_time[r], result[r], exc[r], responses[r]>>

\* the response to a request handled with nothing else running, as a
\* function of its own text, of what the remote call did for it and of its
\* own elapsed time
AloneResponse(client, sent, raised, reply, elapsed) ==
    IF Strip(sent) = << >>
    THEN ErrorResponse(400, "Text cannot be empty")
    ELSE IF client = None
    THEN ErrorResponse(500, <<"Prediction failed",
                              "DeepSeek API client not initialized">>)
    ELSE IF raised \/ ParseRaises(reply)
    THEN ErrorResponse(500, <<"Prediction failed", "DeepSeek analysis failed">>)
    ELSE ResultResponse(ParseResult(Strip(sent), reply.val, elapsed))

\* C12: for every interleaving of concurrent requests, each request's
\* response equals the response it gets when handled alone with the same
\* text, reply and elapsed time; a step of one request writes nothing that
\* belongs to another, and the client handle is never written after start.
C12_RequestsIsolated ==
    /\ [](\A r \in Requests :
            pc[r] = "done" =>
                responses[r] = << AloneResponse(deepseek_client,
                                      input_text[r],
                                      calls[r] = 1 /\ ~content[r].returned,
                                      content[r].value,
                                      analysis_time[r]) >>)
    /\ [][/\ deepseek_client' = deepseek_client
          /\ \A r \in Requests : pc'[r] = pc[r] => Own(r)' = Own(r)]_vars

\* two requests answered, each with its own result, the results differing
C12_Witness ==
    \E r, q \in Requests :
        /\ r # q
        /\ pc[r] = "done" /\ pc[q] = "done"
        /\ result[r] # None /\ result[q] # None
        /\ result[r] # result[q]
        /\ responses[r] = << ResultResponse(result[r].val) >>
        /\ responses[q] = << ResultResponse(result[q].val) >>

\* C13: a reply laid out exactly as the template from a verdict word, an
\* integer confidence, an explanation, a highlighted content, an input type,
\* a count and two lists (or "None") parses back to those values; the reply
\* of Scenario A gives Safe, 95, "No risk indicators.", "Hello team",
\* urls_found [] and senders_domains [].
C13_RoundTrip ==
    \A r \in Requests :
        (HasReply(r) /\ result[r] # None) =>
            LET res == result[r].val
            IN  /\ \A p \in WireParams :
                      Reply(r) = WireReply[p] =>
                          /\ res.verdict = p.verdict
                          /\ res.confidence = p.confidence
                          /\ res.explanation = p.explanation
                          /\ res.highlighted_content = p.highlighted_content
                          /\ res.metadata.input_type = p.input_type
                          /\ res.metadata.suspicious_elements
                                 = p.suspicious_elements
                          /\ res.metadata.urls_found = p.urls_found
                          /\ res.metadata.senders_domains = p.senders_domains
                /\ Reply(r) = ScenarioA =>
                      /\ res.verdict = V_SAFE
                      /\ res.confidence = 95
                      /\ res.explanation = NoRiskIndicators
                      /\ res.highlighted_content = HelloTeam
                      /\ res.metadata.urls_found = << >>
                      /\ res.metadata.senders_domains = << >>

\* C14: when the METADATA region of the reply is the four sub-field lines
\* with their values, the parsed result is the one of the same lines in the
\* canonical order, whichever order they stand in, also when one of the
\* values is empty.
C14_OrderTolerance ==
    \A r \in Requests :
        (HasReply(r) /\ result[r] # None) =>
            \A v \in MetaValues, f \in MetaOrders :
                Reply(r) = OrderReply[v, f] =>
                    result[r].val = ParseResult(text[r],
                                        OrderReply[v, CanonicalOrder],
                                        analysis_time[r])

\* seg stands in s where header occurs first, and is followed by the end of
\* s or by one of labels
SegFirstBefore(s, seg, header, labels) ==
    \E i \in 1..Len(s) :
        /\ LitAt(s, i, seg)
        /\ \A j \in 1..i - 1 : ~LitAtI(s, j, header)
        /\ \/ i + Len(seg) > Len(s)
           \/ \E l \in labels : LitAtI(s, i + Len(seg), l)

\* seg stands in s, and every earlier occurrence of header is one of bad
SegFirstAfter(s, seg, header, bad) ==
    \E i \in 1..Len(s) :
        /\ LitAt(s, i, seg)
        /\ \A j \in 1..i - 1 : LitAtI(s, j, header) => LitAt(s, j, bad)

\* the text of s after the header that stands at i, up to the first of
\* labels after it or to the end of s, trimmed
SectionAt(s, i, header, labels) ==
    LET e == Min({ j \in i + 1..Len(s) : \E l \in labels : LitAtI(s, j, l) }
                     \cup { Len(s) + 1 })
    IN  Strip(SubSeq(s, i + Len(header), e - 1))

SeededFromText(r) ==
    /\ HasReply(r)
    /\ result[r] # None
    /\ ~ContainsI(Reply(r), H_METADATA)

\* s holds "http://" or "https://", in these very letters
HasUrlMarker(s) ==
    Contains(s, L_HTTP \o L_SEP) \/ Contains(s, L_HTTP \o L_SSEP)

\* C16: the classifier decides in a fixed order: "URL/Link" when the text
\* holds "http://" or "https://"; otherwise "Email" when the lower-cased
\* text holds an e-mail marker; otherwise "SMS/Text Message" when the text
\* is shorter than 200 characters and its lower-cased form holds an SMS
\* marker; otherwise "Text/Message". A text with "http://" and "dear" is
\* "URL/Link"; a text of exactly 200 characters with "click" and no e-mail
\* marker is "Text/Message".
C16_DecisionOrder ==
    \A r \in Requests :
        SeededFromText(r) =>
            LET t == text[r]
                input_type == result[r].val.metadata.input_type
            IN  /\ HasUrlMarker(t) => input_type = T_URL
                /\ (/\ ~HasUrlMarker(t)
                    /\ \E k \in EmailKeywords : Contains(Lower(t), k))
                       => input_type = T_EMAIL
                /\ (/\ ~HasUrlMarker(t)
                    /\ \A k \in EmailKeywords : ~Contains(Lower(t), k)
                    /\ Len(t) < SmsMaxLen
                    /\ \E k \in SmsKeywords : Contains(Lower(t), k))
                       => input_type = T_SMS
                /\ (/\ ~HasUrlMarker(t)
                    /\ \A k \in EmailKeywords : ~Contains(Lower(t), k)
                    /\ \/ Len(t) >= SmsMaxLen
                       \/ \A k \in SmsKeywords : ~Contains(Lower(t), k))
                       => input_type = T_TEXT
                /\ t = TextUrlDear => input_type = T_URL
                /\ t = TextClickLong => input_type = T_TEXT

\* the text of SmsMaxLen characters with "click" and no e-mail marker was
\* classified "Text/Message"
C16_Witness ==
    \E r \in Requests :
        /\ SeededFromText(r)
        /\ Len(text[r]) = SmsMaxLen
        /\ text[r] = TextClickLong
        /\ result[r].val.metadata.input_type = T_TEXT

\* C17: the URL check of the classifier is case-insensitive: a text that
\* holds "http://" or "https://" in any letter case, such as
\* "HTTP://EXAMPLE.COM" or "Https://x", is classified "URL/Link".
C17_UrlCheckAnyCase ==
    \A r \in Requests :
        (/\ SeededFromText(r)
         /\ \/ ContainsI(text[r], L_HTTP \o L_SEP)
            \/ ContainsI(text[r], L_HTTP \o L_SSEP))
            => result[r].val.metadata.input_type = T_URL

\* url_pattern can match at position i of s: the scheme stands there with
\* a character of the body after it; the length of the scheme, or 0
SchemeLenAt(s, i) ==
    IF LitAt(s, i, L_HTTP \o L_SEP)
          /\ i + Len(L_HTTP \o L_SEP) <= Len(s)
          /\ s[i + Len(L_HTTP \o L_SEP)] \in UrlBody
    THEN Len(L_HTTP \o L_SEP)
    ELSE IF LitAt(s, i, L_HTTP \o L_SSEP)
          /\ i + Len(L_HTTP \o L_SSEP) <= Len(s)
          /\ s[i + Len(L_HTTP \o L_SSEP)] \in UrlBody
    THEN Len(L_HTTP \o L_SSEP)
    ELSE 0

\* urls lists the non-overlapping leftmost matches in s from position i on:
\* its head stands at the first place from i where the pattern can match,
\* is the scheme and body characters only, and is followed by the end of s
\* or by a character outside the body set; the rest lists the matches after
\* it; the list is empty when the pattern can match nowhere from i on
RECURSIVE ListsMatches(_, _, _)
ListsMatches(s, i, urls) ==
    LET starts == { j \in i..Len(s) : SchemeLenAt(s, j) > 0 }
    IN  IF urls = << >> THEN starts = {}
        ELSE /\ starts # {}
             /\ LET p == Min(starts)
                    u == Head(urls)
                IN  /\ LitAt(s, p, u)
                    /\ Len(u) > SchemeLenAt(s, p)
                    /\ \A k \in SchemeLenAt(s, p) + 1..Len(u) : u[k] \in UrlBody
                    /\ \/ p + Len(u) > Len(s)
                       \/ s[p + Len(u)] \notin UrlBody
                    /\ ListsMatches(s, p + Len(u), Tail(urls))

\* the URL of TextVisit
UrlVisit ==
    <<"h","t","t","p",":","/","/","e","x","a","m","p","l","e",".","c","o","m",
      "/","a","?","b","=","1">>

\* C18: extract_urls returns the non-overlapping leftmost matches of the
\* URL pattern in their order of appearance, a URL that occurs twice being
\* listed twice, and the empty sequence for a text without a match; each
\* match ends at the first character outside the body set, so
\* "Visit http://example.com/a?b=1 now" gives ["http://example.com/a?b=1"].
C18_LeftmostMatches ==
    \A r \in Requests :
        SeededFromText(r) =>
            LET t == text[r]
                urls_found == result[r].val.metadata.urls_found
            IN  /\ ListsMatches(t, 1, urls_found)
                /\ ~HasUrlMarker(t) => urls_found = << >>
                /\ t = TextTwice => urls_found = << UrlAB, UrlAB >>
                /\ t = TextVisit => urls_found = << UrlVisit >>

\* the URL list of "Visit http://example.com/a?b=1 now" was extracted: one
\* URL, ending before the space
C18_Witness ==
    \E r \in Requests :
        /\ SeededFromText(r)
        /\ text[r] = TextVisit
        /\ result[r].val.metadata.urls_found = << UrlVisit >>

\* C19: metadata.analysis_time of every result is the elapsed time measured
\* locally for the request: whatever the reply says, also when it states an
\* analysis time, so that two replies handled with the same measured time
\* give the same analysis_time.
C19_AnalysisTimeMeasured ==
    \A r \in Requests :
        result[r] # None =>
            /\ result[r].val.metadata.analysis_time = analysis_time[r]
            /\ \A other \in {ReplyAnalysisTime, << >>} :
                   ResultMetadata(text[r], other, analysis_time[r])
                           .analysis_time
                       = result[r].val.metadata.analysis_time
            /\ pc[r] = "done" =>
                   responses[r][1].content.metadata.analysis_time
                       = analysis_time[r]

\* a reply that states an analysis time was parsed, and the result carries
\* the measured time, not the stated one
C19_Witness ==
    \E r \in Requests :
        /\ HasReply(r) /\ result[r] # None
        /\ Reply(r) = ReplyAnalysisTime
        /\ analysis_time[r] = 142
        /\ result[r].val.metadata.suspicious_elements = 3
        /\ result[r].val.metadata.analysis_time = 142

\* C20: an explanation taken from the reply holds no "HIGHLIGHTED_CONTENT:"
\* and no "METADATA:", and a highlighted_content taken from the reply holds
\* no "METADATA:"; when "EXPLANATION:" is followed, after white space only,
\* by "HIGHLIGHTED_CONTENT:", the text of that section is not captured into
\* the explanation.
C20_SectionBoundaries ==
    \A r \in Requests :
        (HasReply(r) /\ result[r] # None) =>
            LET s == Reply(r)
                res == result[r].val
            IN  /\ ContainsI(s, H_EXPLANATION) =>
                       /\ ~ContainsI(res.explanation, H_HIGHLIGHTED)
                       /\ ~ContainsI(res.explanation, H_METADATA)
                /\ ContainsI(s, H_HIGHLIGHTED) =>
                       ~ContainsI(res.highlighted_content, H_METADATA)
                /\ s = SegExplanationBlank \o SegHighlighted =>
                       ~ContainsI(res.explanation, Strip(From(SegHighlighted,
                                          Len(H_HIGHLIGHTED) + 1)))

\* the rest of the line of s from position i: up to the next line feed or
\* to the end of s
LineRest(s, i) ==
    SubSeq(s, i, Min({ j \in i..Len(s) : s[j] = "\n" } \cup { Len(s) + 1 }) - 1)

\* the places of s after its first "METADATA:" where label stands
LabelsInMetadata(s, label) ==
    { i \in 1..Len(s) :
        /\ LitAtI(s, i, label)
        /\ \E m \in 1..i - 1 : LitAtI(s, m, H_METADATA) }

\* C21: an input_type taken from the reply is the trimmed rest of the line
\* on which "Input Type:" stands: it holds no text of a following line, and
\* a label with nothing after it on its line, as in
\* "Input Type:\nSuspicious Elements: 3", leaves the seeded default.
C21_InputTypeSameLine ==
    \A r \in Requests :
        (HasReply(r) /\ result[r] # None) =>
            LET s == Reply(r)
                input_type == result[r].val.metadata.input_type
            IN  /\ \A i \in LabelsInMetadata(s, H_INPUT_TYPE) :
                       LabelsInMetadata(s, H_INPUT_TYPE) = {i} =>
                           LET rest == Strip(LineRest(s, i + Len(H_INPUT_TYPE)))
                           IN  input_type = IF rest # << >> THEN rest
                                            ELSE detect_input_type(text[r])
                /\ \A k \in DOMAIN input_type : input_type[k] # "\n"
                /\ s = ReplyInputTypeBlank =>
                       input_type = detect_input_type(text[r])

\* every item of list is non-empty and has no white space at either end
ItemsTrimmed(list) ==
    \A k \in DOMAIN list :
        /\ list[k] # << >>
        /\ ~IsSpace(list[k][1])
        /\ ~IsSpace(list[k][Len(list[k])])

\* C22: when the "URLs Found:" (the "Senders/Domains:") value is present
\* and is not "none", urls_found (senders_domains) is the list of the
\* comma-separated tokens of the value in their order, each trimmed, the
\* empty ones dropped: every item is non-empty with no white space at its
\* ends, and the URLs extracted from the request text are discarded, also
\* when no token is left, as for the value ",".
C22_ListsFromTokens ==
    \A r \in Requests :
        (HasReply(r) /\ result[r] # None) =>
            LET urls_found == result[r].val.metadata.urls_found
                senders_domains == result[r].val.metadata.senders_domains
            IN  /\ ItemsTrimmed(urls_found)
                /\ ItemsTrimmed(senders_domains)
                /\ \A u, d \in ListCases :
                       Reply(r) = ListReply[u, d] =>
                           /\ ~u.none => urls_found = u.tokens
                           /\ ~d.none => senders_domains = d.tokens

\* the request text holds a URL, the reply gives "," as the URL list, and
\* urls_found is empty
C22_Witness ==
    \E r \in Requests :
        /\ HasReply(r) /\ result[r] # None
        /\ extract_urls(text[r]) # << >>
        /\ \E u, d \in ListCases :
              /\ u.value = <<",">>
              /\ Reply(r) = ListReply[u, d]
        /\ result[r].val.metadata.urls_found = << >>

\* the first position of s after label, standing at i, and the white space
\* that follows it
AfterLabel(s, i, label) == RunEnd(s, i + Len(label), SpaceSet)

\* the places of s where label stands, in any letter case, followed after
\* optional white space by a character of class
LabelsBefore(s, label, class) ==
    { i \in 1..Len(s) :
        /\ LitAtI(s, i, label)
        /\ AfterLabel(s, i, label) <= Len(s)
        /\ s[AfterLabel(s, i, label)] \in class }

\* C23: raw values are surfaced without validation. When the reply has
\* "VERDICT:" followed by a word or a hyphenated word, the verdict is that
\* token character for character, in its own letter case and not mapped
\* onto the three-value set; when it has "CONFIDENCE:" followed by digits,
\* the confidence is the decimal value of the digit run, also above 100;
\* and the response carries both unchanged.
C23_RawValuesSurfaced ==
    \A r \in Requests :
        (HasReply(r) /\ result[r] # None) =>
            LET s == Reply(r)
                res == result[r].val
            IN  /\ LabelsBefore(s, H_VERDICT, WordSet) # {} =>
                       /\ res.verdict # << >>
                       /\ \A k \in DOMAIN res.verdict :
                              res.verdict[k] \in WordSet \cup {"-"}
                       /\ \E i \in LabelsBefore(s, H_VERDICT, WordSet) :
                              LET b == AfterLabel(s, i, H_VERDICT)
                                  e == b + Len(res.verdict)
                              IN  /\ LitAt(s, b, res.verdict)
                                  /\ e <= Len(s) =>
                                         \/ s[e] \notin WordSet \cup {"-"}
                                         \/ /\ s[e] = "-"
                                            /\ \/ e = Len(s)
                                               \/ s[e + 1] \notin WordSet
                                               \/ "-" \in Range(res.verdict)
                /\ LabelsBefore(s, H_CONFIDENCE, DigitSet) # {} =>
                       \E i \in LabelsBefore(s, H_CONFIDENCE, DigitSet) :
                           LET b == AfterLabel(s, i, H_CONFIDENCE)
                           IN  res.confidence
                                   = IntOf(SubSeq(s, b,
                                               RunEnd(s, b, DigitSet) - 1))
                /\ pc[r] = "done" =>
                       /\ Len(responses[r]) = 1
                       /\ responses[r][1].status_code = 200
                       /\ responses[r][1].content.verdict = res.verdict
                       /\ responses[r][1].content.confidence = res.confidence

\* the reply "VERDICT: high-RISK" with "CONFIDENCE: 250%" was answered with
\* the verdict "high-RISK" and the confidence 250
C23_Witness ==
    \E r \in Requests :
        /\ pc[r] = "done"
        /\ HasReply(r) /\ result[r] # None
        /\ Reply(r) = SegVerdictCase \o SegConfidence250
        /\ responses[r][1].content.verdict
               = <<"h","i","g","h","-","R","I","S","K">>
        /\ responses[r][1].content.confidence = 250

\* C24: when the reply has no "VERDICT:" label (in any letter case), or
\* every such label is followed, after optional white space, by a character
\* that is no letter, digit or underscore, as in "VERDICT: [High-risk]" or
\* "VERDICT: **High-risk**", the verdict is the seeded default "Safe": a
\* verdict of "Safe" does not tell that the reply stated it.
C24_FailOpenDefault ==
    \A r \in Requests :
        (HasReply(r) /\ result[r] # None) =>
            LET s == Reply(r)
                verdict == result[r].val.verdict
            IN  /\ (\A i \in 1..Len(s) :
                        LitAtI(s, i, H_VERDICT) =>
                            /\ AfterLabel(s, i, H_VERDICT) <= Len(s)
                            /\ s[AfterLabel(s, i, H_VERDICT)] \notin WordSet)
                       => verdict = V_SAFE
                /\ s = ReplyVerdictStars => verdict = V_SAFE
                /\ s = SegVerdictBracket => verdict = V_SAFE

\* the reply "VERDICT: **High-risk**" was parsed to the verdict "Safe"
C24_Witness ==
    \E r \in Requests :
        /\ HasReply(r) /\ result[r] # None
        /\ Reply(r) = ReplyVerdictStars
        /\ ContainsI(Reply(r), V_HIGH_RISK)
        /\ result[r].val.verdict = V_SAFE

====
